---- MODULE Spec2Model ----
(***************************************************************************)
(* Model of the SNES emulator control layer: EmulatorService and          *)
(* SNESEmulator (src/src/emulatorService.ts) and the tool registrations    *)
(* (src/unnamed/part_000).  JavaScript runs every handler to completion,   *)
(* so one handler is one action; the calls it makes on the emulation core  *)
(* are recorded, in order, in the history variable log.                    *)
(***************************************************************************)
EXTENDS Integers, Sequences, FiniteSets, TLC

\* ------------------------------------------------------------------ bounds
\* largest explicit frame count a caller passes (the smallest is -1)
MaxFrames == 2
\* cap on the core's frame counter between two loads
MaxTick == 8
\* the same cap where the handlers are reached through the tools, whose default
\* hold is DefaultPressFrames
MaxToolTick == 31
\* a core step may throw at its 1st .. MaxFaultStep-th call within a handler
MaxFaultStep == 1
MaxRequests == 3

\* ------------------------------------------------------- program constants
\* press_* tools: duration_frames default
DefaultPressFrames == 25
\* wait_frames tool: duration_frames default
DefaultWaitFrames == 100
\* EmulatorService.loadRom: frames advanced after a load
PrimingFrames == 5

Buttons == {"A", "B"}

\* SNES_BUTTON_MAP of ./types: the numeric code the core understands
SNES_BUTTON_MAP(button) == CASE button = "A" -> 8 [] button = "B" -> 0

Durations == (-1 .. MaxFrames)

\* error messages thrown by the code
NoError == "none"
NotLoaded == "No ROM loaded"
NotFound == "ROM file not found"
LoadFailed == "Failed to load ROM"
CoreFault == "core step threw"
EncodingFailure == "toDataURL threw"
InvalidArgument == "schema rejected"

Undefined == "undefined"

\* ------------------------------------------------------------- ROM images
\* A ROM image is its length and the bytes that are not zero.
At(data, i) == IF i \in DOMAIN data.bytes THEN data.bytes[i] ELSE 0

\* a slice that shortens the buffer and leaves the bytes where they were
slice512_KeepsOffsets(data) ==
  [length |-> data.length - 512,
   bytes |-> [i \in {k \in DOMAIN data.bytes : k < data.length - 512} |-> data.bytes[i]]]

\* Uint8Array.slice(512)
slice512(data) ==
  [length |-> data.length - 512,
   bytes |-> [i \in {j - 512 : j \in {k \in DOMAIN data.bytes : k >= 512}}
                |-> data.bytes[i + 512]]]

\* 0x7FDC = 32732, 0x7FE0 = 32736, 0x7FD5 = 32725, 0x7FD6 = 32726
\* 0xFFDC = 65500, 0xFFE0 = 65504, 0xFFD5 = 65493, 0xFFD6 = 65494
\* Each part of detectHiRom yields its value and the indices it reads.

\* "Check LoROM header at 0x7FDC-0x7FDF"
checkLoRom(data) ==
  IF data.length >= 32736
  THEN LET complementLo == At(data, 32732) + 256 * At(data, 32733)
           checksumLo == At(data, 32734) + 256 * At(data, 32735)
       IN [valid |-> (complementLo + checksumLo) % 65536 = 65535,
           reads |-> 32732 .. 32735]
  ELSE [valid |-> FALSE, reads |-> {}]

\* the HiROM check without its length test
checkHiRom_NoLengthTest(data) ==
  LET complementHi == At(data, 65500) + 256 * At(data, 65501)
      checksumHi == At(data, 65502) + 256 * At(data, 65503)
  IN [valid |-> (complementHi + checksumHi) % 65536 = 65535,
      reads |-> 65500 .. 65503]

\* "Check HiROM header at 0xFFDC-0xFFDF"
checkHiRom(data) ==
  IF data.length >= 65504
  THEN LET complementHi == At(data, 65500) + 256 * At(data, 65501)
           checksumHi == At(data, 65502) + 256 * At(data, 65503)
       IN [valid |-> (complementHi + checksumHi) % 65536 = 65535,
           reads |-> 65500 .. 65503]
  ELSE [valid |-> FALSE, reads |-> {}]

\* the tie-break made on the LoROM region's mapping byte
decideHiRom_ByLoType(data, loromValid, hiromValid) ==
  IF hiromValid /\ ~loromValid THEN [isHirom |-> TRUE, reads |-> {}]
  ELSE IF hiromValid /\ loromValid
  THEN LET loType == IF data.length >= 32726 THEN At(data, 32725) \div 16 ELSE 0
       IN [isHirom |-> loType = 3,
           reads |-> (IF data.length >= 32726 THEN {32725} ELSE {})
                       \cup (IF data.length >= 65494 THEN {65493} ELSE {})]
  ELSE [isHirom |-> FALSE, reads |-> {}]

\* "If both valid ... check mapping byte"
decideHiRom(data, loromValid, hiromValid) ==
  IF hiromValid /\ ~loromValid THEN [isHirom |-> TRUE, reads |-> {}]
  ELSE IF hiromValid /\ loromValid
  THEN LET hiType == IF data.length >= 65494 THEN At(data, 65493) \div 16 ELSE 0
       IN [isHirom |-> hiType = 3,
           reads |-> (IF data.length >= 32726 THEN {32725} ELSE {})
                       \cup (IF data.length >= 65494 THEN {65493} ELSE {})]
  ELSE [isHirom |-> FALSE, reads |-> {}]

detectHiRom(romData) ==
  LET data == IF romData.length % 1024 = 512 THEN slice512(romData) ELSE romData
      lo == checkLoRom(data)
      hi == checkHiRom(data)
      dec == decideHiRom(data, lo.valid, hi.valid)
  IN [data |-> data, isHirom |-> dec.isHirom,
      reads |-> lo.reads \cup hi.reads \cup dec.reads]

\* ------------------------------------------------------------ file system
LoRomImage == [length |-> 32768, bytes |-> (32732 :> 255 @@ 32733 :> 255)]
HiRomImage == [length |-> 65536 + 512,
               bytes |-> (66012 :> 52 @@ 66013 :> 18 @@ 66014 :> 203 @@ 66015 :> 237)]
BadImage == [length |-> 1000, bytes |-> (0 :> 1)]

Paths == {"lo.sfc", "hi.smc", "bad.sfc", "locked.sfc", "missing.sfc"}

\* fs.existsSync
existsSync(romPath) == romPath # "missing.sfc"

\* fs.readFileSync throws on a path that exists and cannot be read
Readable(romPath) == romPath \in {"lo.sfc", "hi.smc", "bad.sfc"}

readFileSync(romPath) ==
  CASE romPath = "lo.sfc" -> LoRomImage
    [] romPath = "hi.smc" -> HiRomImage
    [] OTHER -> BadImage

\* ------------------------------------------------- the emulation core
\* The core (snes-core/*.js) is consumed through loadRom, reset, runFrame,
\* setPad1ButtonPressed/Released and setPixels.  Its machine state is the
\* cartridge, a frame counter (tick), the frame last rendered (video) and
\* the set of pad-1 buttons held down.
EmptyCart == [length |-> 0, isHirom |-> FALSE]

InitSnes == [state |-> "empty", cart |-> EmptyCart, tick |-> 0, video |-> 0, pad |-> {}]

\* the core refuses an image that is not a whole number of 32 KiB banks
CoreAccepts(data) == data.length > 0 /\ data.length % 32768 = 0

\* A context c is the state a handler runs in: the emulator's fields, the
\* core, the calls made so far, the exception in flight and the value
\* returned so far.  c.fault is the environment's choice of which fallible
\* external call throws during this handler.  Each call is logged with the
\* loaded flag and the buttons held at the moment it is made.
Call(c, call, flag, code) ==
  [c EXCEPT !.log = Append(@, [call |-> call, flag |-> flag, code |-> code,
                               loaded |-> c.romLoaded, held |-> c.snes.pad])]

Throw(c, e) == [c EXCEPT !.thrown = e]

NumCalls(log, call) == Cardinality({i \in DOMAIN log : log[i].call = call})

Snes_loadRom(c, data, isHirom) ==
  LET c1 == Call(c, "loadRom", isHirom, {})
  IN IF CoreAccepts(data)
     THEN [c1 EXCEPT !.snes.state = "ready",
                     !.snes.cart = [length |-> data.length, isHirom |-> isHirom]]
     ELSE [c1 EXCEPT !.snes.state = "undefined"]

Snes_reset(c, hard) ==
  [Call(c, "reset", hard, {}) EXCEPT !.snes.tick = 0, !.snes.video = 0]

Snes_runFrame(c, noPpu) ==
  LET k == NumCalls(c.log, "runFrame") + 1
      c1 == Call(c, "runFrame", noPpu, {})
  IN IF c.fault.kind = "runFrame" /\ c.fault.k = k
     THEN Throw(c1, CoreFault)
     ELSE [c1 EXCEPT !.snes.tick = @ + 1,
                     !.snes.video = IF noPpu THEN @ ELSE c.snes.tick + 1]

Snes_setPad1ButtonPressed(c, buttonNum) ==
  [Call(c, "setPad1ButtonPressed", FALSE, {buttonNum}) EXCEPT !.snes.pad = @ \cup {buttonNum}]

Snes_setPad1ButtonReleased(c, buttonNum) ==
  [Call(c, "setPad1ButtonReleased", FALSE, {buttonNum}) EXCEPT !.snes.pad = @ \ {buttonNum}]

\* the RGBA pixels the core exports: a function of the cartridge and of the
\* frame last rendered
Pixels(snes) == [state |-> snes.state, cart |-> snes.cart, video |-> snes.video]

Snes_setPixels(c) == Call(c, "setPixels", FALSE, {})

\* ------------------------------------------------------------ SNESEmulator
NoRet == [type |-> "void", data |-> Pixels(InitSnes), mimeType |-> "none"]

\* loadRom keeping the identifier of a ROM loaded earlier
Emulator_loadRom_KeepsPath(c, romPath) ==
  IF ~Readable(romPath) THEN Throw(c, LoadFailed)
  ELSE LET d == detectHiRom(readFileSync(romPath))
           c1 == Snes_loadRom(c, d.data, d.isHirom)
       IN IF CoreAccepts(d.data) = FALSE THEN Throw(c1, LoadFailed)
          ELSE [Snes_reset(c1, TRUE) EXCEPT !.romLoaded = TRUE,
                  !.romPath = IF c.romLoaded THEN @ ELSE romPath]

\* loadRom marking the session unloaded when the core refuses the image
Emulator_loadRom_UnloadsOnReject(c, romPath) ==
  IF ~Readable(romPath) THEN Throw(c, LoadFailed)
  ELSE LET d == detectHiRom(readFileSync(romPath))
           c1 == Snes_loadRom(c, d.data, d.isHirom)
       IN IF CoreAccepts(d.data) = FALSE
          THEN Throw([c1 EXCEPT !.romLoaded = FALSE, !.romPath = Undefined], LoadFailed)
          ELSE [Snes_reset(c1, TRUE) EXCEPT !.romLoaded = TRUE, !.romPath = romPath]

Emulator_loadRom(c, romPath) ==
  IF ~Readable(romPath) THEN Throw(c, LoadFailed)
  ELSE LET rawData == readFileSync(romPath)
           d == detectHiRom(rawData)
           c1 == Snes_loadRom(c, d.data, d.isHirom)
           result == CoreAccepts(d.data)
       IN IF result = FALSE THEN Throw(c1, LoadFailed)
          ELSE [Snes_reset(c1, TRUE) EXCEPT !.romLoaded = TRUE, !.romPath = romPath]

\* the hold loop running one frame too many
RECURSIVE holdLoop_OneMore(_, _, _)
holdLoop_OneMore(c, i, durationFrames) ==
  IF c.thrown = NoError /\ i <= durationFrames
  THEN holdLoop_OneMore(Snes_runFrame(c, TRUE), i + 1, durationFrames)
  ELSE c

RECURSIVE holdLoop(_, _, _)
holdLoop(c, i, durationFrames) ==
  IF c.thrown = NoError /\ i < durationFrames
  THEN holdLoop(Snes_runFrame(c, TRUE), i + 1, durationFrames)
  ELSE c

\* pressButton releasing the button only after the rendered frame
Emulator_pressButton_LateRelease(c, button, durationFrames) ==
  IF ~c.romLoaded THEN Throw(c, NotLoaded)
  ELSE LET buttonNum == SNES_BUTTON_MAP(button)
           c1 == Snes_setPad1ButtonPressed(c, buttonNum)
           c2 == holdLoop(c1, 0, durationFrames)
           c3 == IF c2.thrown # NoError THEN c2 ELSE Snes_runFrame(c2, FALSE)
       IN IF c3.thrown # NoError THEN c3
          ELSE Snes_setPad1ButtonReleased(c3, buttonNum)

Emulator_pressButton(c, button, durationFrames) ==
  IF ~c.romLoaded THEN Throw(c, NotLoaded)
  ELSE LET buttonNum == SNES_BUTTON_MAP(button)
           c1 == Snes_setPad1ButtonPressed(c, buttonNum)
           c2 == holdLoop(c1, 0, durationFrames)
       IN IF c2.thrown # NoError THEN c2
          ELSE Snes_runFrame(Snes_setPad1ButtonReleased(c2, buttonNum), FALSE)

Emulator_doFrame(c) ==
  IF ~c.romLoaded THEN Throw(c, NotLoaded) ELSE Snes_runFrame(c, FALSE)

\* a capture that runs a frame before exporting the pixels
Emulator_getScreenAsBase64_Advances(c) ==
  IF ~c.romLoaded THEN Throw(c, NotLoaded)
  ELSE LET c0 == Snes_runFrame(c, FALSE)
           c1 == Snes_setPixels(c0)
       IN IF c0.thrown # NoError THEN c0
          ELSE IF c.fault.kind = "encode" THEN Throw(c1, EncodingFailure)
          ELSE [c1 EXCEPT !.ret = [type |-> "base64png", data |-> Pixels(c1.snes),
                                   mimeType |-> "none"]]

Emulator_getScreenAsBase64(c) ==
  IF ~c.romLoaded THEN Throw(c, NotLoaded)
  ELSE LET c1 == Snes_setPixels(c)
       IN IF c.fault.kind = "encode" THEN Throw(c1, EncodingFailure)
          ELSE [c1 EXCEPT !.ret = [type |-> "base64png", data |-> Pixels(c1.snes),
                                   mimeType |-> "none"]]

\* --------------------------------------------------------- EmulatorService
Service_getScreen(c) ==
  IF ~c.romLoaded THEN Throw(c, NotLoaded)
  ELSE LET c1 == Emulator_getScreenAsBase64(c)
       IN IF c1.thrown # NoError THEN c1
          ELSE [c1 EXCEPT !.ret = [type |-> "image", data |-> c1.ret.data,
                                   mimeType |-> "image/png"]]

\* the priming loop running one frame too many
RECURSIVE primeLoop_OneMore(_, _)
primeLoop_OneMore(c, i) ==
  IF c.thrown = NoError /\ i <= PrimingFrames
  THEN primeLoop_OneMore(Emulator_doFrame(c), i + 1)
  ELSE c

RECURSIVE primeLoop(_, _)
primeLoop(c, i) ==
  IF c.thrown = NoError /\ i < PrimingFrames
  THEN primeLoop(Emulator_doFrame(c), i + 1)
  ELSE c

\* loadRom without the existence check
Service_loadRom_NoExistsCheck(c, romPath) ==
  LET c1 == Emulator_loadRom(c, romPath)
      c2 == IF c1.thrown = NoError THEN primeLoop(c1, 0) ELSE c1
      c3 == IF c2.thrown = NoError THEN Service_getScreen(c2) ELSE c2
  IN IF c3.thrown # NoError THEN Throw(c3, LoadFailed) ELSE c3

Service_loadRom(c, romPath) ==
  IF ~existsSync(romPath) THEN Throw(c, NotFound)
  ELSE LET c1 == Emulator_loadRom(c, romPath)
           c2 == IF c1.thrown = NoError THEN primeLoop(c1, 0) ELSE c1
           c3 == IF c2.thrown = NoError THEN Service_getScreen(c2) ELSE c2
       IN IF c3.thrown # NoError THEN Throw(c3, LoadFailed) ELSE c3

Service_pressButton(c, button, durationFrames) ==
  IF ~c.romLoaded THEN Throw(c, NotLoaded)
  ELSE Emulator_pressButton(c, button, durationFrames)

\* a local press that stops after the release, without the rendered frame
Service_pressButtonLocal_NoTrailingFrame(c, button, durationFrames) ==
  IF ~c.romLoaded THEN c
  ELSE LET buttonNum == SNES_BUTTON_MAP(button)
           c2 == holdLoop(Snes_setPad1ButtonPressed(c, buttonNum), 0, durationFrames)
       IN IF c2.thrown # NoError THEN c2
          ELSE Snes_setPad1ButtonReleased(c2, buttonNum)

\* a local press that signals the unloaded session like the authoritative one
Service_pressButtonLocal_Throws(c, button, durationFrames) ==
  IF ~c.romLoaded THEN Throw(c, NotLoaded)
  ELSE Emulator_pressButton(c, button, durationFrames)

Service_pressButtonLocal(c, button, durationFrames) ==
  IF ~c.romLoaded THEN c
  ELSE Emulator_pressButton(c, button, durationFrames)

\* the wait loop running one frame too many
RECURSIVE waitLoop_OneMore(_, _, _)
waitLoop_OneMore(c, i, durationFrames) ==
  IF c.thrown = NoError /\ i <= durationFrames
  THEN waitLoop_OneMore(Emulator_doFrame(c), i + 1, durationFrames)
  ELSE c

RECURSIVE waitLoop(_, _, _)
waitLoop(c, i, durationFrames) ==
  IF c.thrown = NoError /\ i < durationFrames
  THEN waitLoop(Emulator_doFrame(c), i + 1, durationFrames)
  ELSE c

Service_waitFrames(c, durationFrames) ==
  IF ~c.romLoaded THEN Throw(c, NotLoaded)
  ELSE waitLoop(c, 0, durationFrames)

\* advancing after the capture instead of before it
Service_advanceFrameAndGetScreen_CaptureFirst(c) ==
  IF ~c.romLoaded THEN Throw(c, NotLoaded)
  ELSE LET c1 == Service_getScreen(c)
       IN IF c1.thrown # NoError THEN c1 ELSE Emulator_doFrame(c1)

Service_advanceFrameAndGetScreen(c) ==
  IF ~c.romLoaded THEN Throw(c, NotLoaded)
  ELSE LET c1 == Emulator_doFrame(c)
       IN IF c1.thrown # NoError THEN c1 ELSE Service_getScreen(c1)

\* SNESEmulator.isRomLoaded / getRomPath as EmulatorService passes them on
Service_isRomLoaded(c) == c.romLoaded

Service_getRomPath(c) == c.romPath

\* ------------------------------------------------------ registerSNESTools
\* z.number().int().positive().optional().default(dflt)
ParseDuration(given, value, dflt) ==
  LET n == IF given THEN value ELSE dflt
  IN [ok |-> n > 0, value |-> n]

TextRet == [type |-> "text", data |-> Pixels(InitSnes), mimeType |-> "none"]

Tool_press(c, button, duration_frames, include_screenshot) ==
  LET c1 == Service_pressButton(c, button, duration_frames)
  IN IF c1.thrown # NoError THEN c1
     ELSE IF include_screenshot THEN Service_getScreen(c1)
     ELSE [c1 EXCEPT !.ret = TextRet]

Tool_wait_frames(c, duration_frames, include_screenshot) ==
  LET c1 == Service_waitFrames(c, duration_frames)
  IN IF c1.thrown # NoError THEN c1
     ELSE IF include_screenshot THEN Service_getScreen(c1)
     ELSE [c1 EXCEPT !.ret = TextRet]

Tool_load_rom(c, romPath) == Service_loadRom(c, romPath)

Tool_get_screen(c) == Service_advanceFrameAndGetScreen(c)

\* ------------------------------------------------------------------ state
VARIABLES
  romLoaded,  \* SNESEmulator.romLoaded
  romPath,    \* SNESEmulator.romPath
  snes,       \* the core's machine state
  log,        \* the core calls of the last handler, in order
  op,         \* the last handler and its arguments
  result,     \* the error the last handler threw, or NoError
  ret,        \* the value the last handler returned
  pre,        \* romLoaded, romPath and snes when the last handler began
  everLoaded, \* some load handler has returned without throwing
  lastShot,   \* the images returned since the core was last stepped, reset or
              \* reloaded: how many (up to 2) and the first of them
  rom,        \* the raw file contents handed to detectHiRom
  det,        \* whether detectHiRom has returned, and what it returned
  arrived,    \* how many external requests have arrived
  queue,      \* the requests that arrived and whose handler has not begun
  running,    \* the handlers that have begun and not returned, with the
              \* number of core calls each has made
  trace       \* every core call made so far, with the request that made it

vars == <<romLoaded, romPath, snes, log, op, result, ret, pre, everLoaded, lastShot,
          rom, det, arrived, queue, running, trace>>

NoRequests == [r \in {} |-> 0]

EmptyImage == [length |-> 0, bytes |-> [i \in {} |-> 0]]
NoDet == [done |-> FALSE, out |-> [data |-> EmptyImage, isHirom |-> FALSE, reads |-> {}]]

Faults ==
  {[kind |-> "none", k |-> 0], [kind |-> "encode", k |-> 0]}
    \cup {[kind |-> "runFrame", k |-> i] : i \in 1 .. MaxFaultStep}

\* the faults a handler without a capture can meet, and those a handler
\* without a step can meet
StepFaults == {f \in Faults : f.kind # "encode"}
EncodeFaults == {f \in Faults : f.kind # "runFrame"}

\* the tools are checked with a correct core: only the encoder may fail
ToolFaults == EncodeFaults

Session == [romLoaded |-> romLoaded, romPath |-> romPath, snes |-> snes]

Begin(fault) ==
  [romLoaded |-> romLoaded, romPath |-> romPath, snes |-> snes, log |-> <<>>,
   thrown |-> NoError, ret |-> NoRet, fault |-> fault]

Op(name, button, frames, path, shot) ==
  [name |-> name, button |-> button, frames |-> frames, path |-> path, shot |-> shot]

LoadOps == {"loadRom", "load_rom_tool"}

NoShot == [n |-> 0, data |-> Pixels(InitSnes)]

\* the calls that change what the core shows
Advances(l) == \E i \in DOMAIN l : l[i].call \in {"loadRom", "reset", "runFrame"}

CommitSession(c, o) ==
  /\ romLoaded' = c.romLoaded
  /\ romPath' = c.romPath
  /\ snes' = c.snes
  /\ log' = c.log
  /\ result' = c.thrown
  /\ ret' = IF c.thrown = NoError THEN c.ret ELSE NoRet
  /\ op' = o
  /\ pre' = Session
  /\ everLoaded' = (everLoaded \/ (o.name \in LoadOps /\ c.thrown = NoError))
  /\ lastShot' = LET kept == IF Advances(c.log) THEN NoShot ELSE lastShot
                 IN IF c.thrown # NoError \/ c.ret.type # "image" THEN kept
                    ELSE IF kept.n = 0 THEN [n |-> 1, data |-> c.ret.data]
                    ELSE [kept EXCEPT !.n = 2]

\* the frame counter stays within its cap
Commit(c, o) ==
  /\ CommitSession(c, o)
  /\ UNCHANGED <<rom, det, arrived, queue, running, trace>>

Fits(steps) == snes.tick + steps <= MaxTick

FitsTool(steps) == snes.tick + steps <= MaxToolTick

Steps(n) == IF n > 0 THEN n + 1 ELSE 1

InitSession ==
  /\ romLoaded = FALSE
  /\ romPath = Undefined
  /\ snes = InitSnes
  /\ log = <<>>
  /\ op = Op("new", "none", 0, "none", FALSE)
  /\ result = NoError
  /\ ret = NoRet
  /\ pre = [romLoaded |-> FALSE, romPath |-> Undefined, snes |-> InitSnes]
  /\ everLoaded = FALSE
  /\ lastShot = NoShot

InitRequests ==
  arrived = 0 /\ queue = NoRequests /\ running = NoRequests /\ trace = <<>>

Init == InitSession /\ rom = EmptyImage /\ det = NoDet /\ InitRequests

LoadRom ==
  \E romPath_ \in Paths, fault \in Faults :
    Commit(Service_loadRom(Begin(fault), romPath_), Op("loadRom", "none", 0, romPath_, FALSE))

PressButton ==
  \E button \in Buttons, n \in Durations, fault \in StepFaults :
    /\ Fits(Steps(n))
    /\ Commit(Service_pressButton(Begin(fault), button, n),
              Op("pressButton", button, n, "none", FALSE))

PressButtonLocal ==
  \E button \in Buttons, n \in Durations, fault \in StepFaults :
    /\ Fits(Steps(n))
    /\ Commit(Service_pressButtonLocal(Begin(fault), button, n),
              Op("pressButtonLocal", button, n, "none", FALSE))

WaitFrames ==
  \E n \in Durations, fault \in StepFaults :
    /\ Fits(Steps(n))
    /\ Commit(Service_waitFrames(Begin(fault), n), Op("waitFrames", "none", n, "none", FALSE))

GetScreen ==
  \E fault \in EncodeFaults :
    Commit(Service_getScreen(Begin(fault)), Op("getScreen", "none", 0, "none", FALSE))

AdvanceFrameAndGetScreen ==
  \E fault \in Faults :
    /\ Fits(1)
    /\ Commit(Service_advanceFrameAndGetScreen(Begin(fault)),
              Op("advanceFrameAndGetScreen", "none", 0, "none", FALSE))

\* a press_<button> tool call: the schema parses duration_frames first
ToolPress ==
  \E button \in Buttons, given \in BOOLEAN, d \in Durations,
     include_screenshot \in BOOLEAN, fault \in ToolFaults :
    LET parsed == ParseDuration(given, d, DefaultPressFrames)
        o == Op("press_tool", button, parsed.value, "none", include_screenshot)
    IN /\ FitsTool(Steps(parsed.value))
       /\ IF parsed.ok
          THEN Commit(Tool_press(Begin(fault), button, parsed.value, include_screenshot), o)
          ELSE Commit(Throw(Begin(fault), InvalidArgument), o)

ToolWaitFrames ==
  \E d \in Durations, include_screenshot \in BOOLEAN, fault \in ToolFaults :
    LET parsed == ParseDuration(TRUE, d, DefaultWaitFrames)
        o == Op("wait_frames_tool", "none", parsed.value, "none", include_screenshot)
    IN /\ FitsTool(Steps(parsed.value))
       /\ IF parsed.ok
          THEN Commit(Tool_wait_frames(Begin(fault), parsed.value, include_screenshot), o)
          ELSE Commit(Throw(Begin(fault), InvalidArgument), o)

ToolLoadRom ==
  \E romPath_ \in Paths, fault \in ToolFaults :
    Commit(Tool_load_rom(Begin(fault), romPath_), Op("load_rom_tool", "none", 0, romPath_, FALSE))

ToolGetScreen ==
  \E fault \in ToolFaults :
    /\ FitsTool(1)
    /\ Commit(Tool_get_screen(Begin(fault)), Op("get_screen_tool", "none", 0, "none", FALSE))

Next ==
  \/ LoadRom
  \/ PressButton
  \/ PressButtonLocal
  \/ WaitFrames
  \/ GetScreen
  \/ AdvanceFrameAndGetScreen

Spec == Init /\ [][Next]_vars

\* ------------------------------------------------------------ detectHiRom alone
\* Raw files of the lengths around the detector's thresholds, with a checksum
\* pair in each header region, a mapping byte in each, and the headers laid
\* out either for a plain image (base 0) or behind a copier header (base 512).
Lengths == {0, 512, 1000, 32735, 32736, 32768, 33280, 65503, 65504, 65536, 66048}
WordPairs == {<<65535, 0>>, <<4660, 60875>>, <<0, 0>>, <<65535, 65535>>}
TypeBytes == {0, 33, 48, 49}
Bases == {0, 512}

MkImage(len, base, lo, hi, lt, ht) ==
  LET full == (base + 32725 :> lt)
                @@ (base + 32732 :> lo[1] % 256) @@ (base + 32733 :> lo[1] \div 256)
                @@ (base + 32734 :> lo[2] % 256) @@ (base + 32735 :> lo[2] \div 256)
                @@ (base + 65493 :> ht)
                @@ (base + 65500 :> hi[1] % 256) @@ (base + 65501 :> hi[1] \div 256)
                @@ (base + 65502 :> hi[2] % 256) @@ (base + 65503 :> hi[2] \div 256)
  IN [length |-> len,
      bytes |-> [i \in {k \in DOMAIN full : k < len} |-> full[i]]]

RomImages ==
  {MkImage(len, base, lo, hi, lt, ht) :
     len \in Lengths, base \in Bases, lo \in WordPairs, hi \in WordPairs,
     lt \in {32, 48}, ht \in TypeBytes}

InitDetect == InitSession /\ rom \in RomImages /\ det = NoDet /\ InitRequests

\* const { data, isHirom } = detectHiRom(rawData)
Detect ==
  /\ ~det.done
  /\ det' = [done |-> TRUE, out |-> detectHiRom(rom)]
  /\ UNCHANGED <<romLoaded, romPath, snes, log, op, result, ret, pre, everLoaded,
                 lastShot, rom, arrived, queue, running, trace>>

SpecDetect == InitDetect /\ [][Detect]_vars

\* ------------------------------------------------------------ requests in flight
\* Tool calls and mirrored socket inputs arrive at any time; the event loop
\* begins a handler only when no handler that has begun is in the middle of
\* its body, that is, every one of them is suspended at an await.
ConcRequests ==
  {Op("press_tool", "A", n, "none", TRUE) : n \in 1 .. MaxFrames}
    \cup {Op("pressButtonLocal", "A", n, "none", FALSE) : n \in 1 .. MaxFrames}
    \cup {Op("wait_frames_tool", "none", n, "none", TRUE) : n \in 1 .. MaxFrames}
    \cup {Op("get_screen_tool", "none", 0, "none", FALSE),
          Op("load_rom_tool", "none", 0, "lo.sfc", FALSE)}

Handler(c, o) ==
  CASE o.name = "press_tool" -> Tool_press(c, o.button, o.frames, o.shot)
    [] o.name = "pressButtonLocal" -> Service_pressButtonLocal(c, o.button, o.frames)
    [] o.name = "wait_frames_tool" -> Tool_wait_frames(c, o.frames, o.shot)
    [] o.name = "get_screen_tool" -> Tool_get_screen(c)
    [] o.name = "load_rom_tool" -> Tool_load_rom(c, o.path)

FitsOp(o) ==
  CASE o.name = "load_rom_tool" -> TRUE
    [] o.name = "get_screen_tool" -> Fits(1)
    [] OTHER -> Fits(Steps(o.frames))

\* a handler that awaits between any two of its core calls
YieldPoints_BetweenCalls(o) == Nat

\* the positions in a handler's body at which it awaits: the handlers and the
\* EmulatorService methods they call contain no await
YieldPoints(o) == {}

Without(f, r) == [q \in DOMAIN f \ {r} |-> f[q]]

Arrive ==
  \E o \in ConcRequests :
    /\ arrived < MaxRequests
    /\ arrived' = arrived + 1
    /\ queue' = queue @@ ((arrived + 1) :> o)
    /\ UNCHANGED <<romLoaded, romPath, snes, log, op, result, ret, pre, everLoaded,
                   lastShot, rom, det, running, trace>>

Start ==
  \E r \in DOMAIN queue :
    /\ \A q \in DOMAIN running : running[q].pos \in YieldPoints(running[q].o)
    /\ FitsOp(queue[r])
    /\ running' = running @@ (r :> [o |-> queue[r],
                                    c |-> Handler(Begin([kind |-> "none", k |-> 0]), queue[r]),
                                    pos |-> 0])
    /\ queue' = Without(queue, r)
    /\ UNCHANGED <<romLoaded, romPath, snes, log, op, result, ret, pre, everLoaded,
                   lastShot, rom, det, arrived, trace>>

\* the next core call of a handler that has begun
Step ==
  \E r \in DOMAIN running :
    /\ running[r].pos < Len(running[r].c.log)
    /\ trace' = Append(trace, [req |-> r, call |-> running[r].c.log[running[r].pos + 1].call])
    /\ running' = [running EXCEPT ![r].pos = @ + 1]
    /\ UNCHANGED <<romLoaded, romPath, snes, log, op, result, ret, pre, everLoaded,
                   lastShot, rom, det, arrived, queue>>

Finish ==
  \E r \in DOMAIN running :
    /\ running[r].pos = Len(running[r].c.log)
    /\ CommitSession(running[r].c, running[r].o)
    /\ running' = Without(running, r)
    /\ UNCHANGED <<rom, det, arrived, queue, trace>>

NextConc ==
  \/ Arrive
  \/ Start
  \/ Step
  \/ Finish

SpecConc == Init /\ [][NextConc]_vars

\* the same session driven through the registered tools only
NextTools ==
  \/ ToolPress
  \/ ToolWaitFrames
  \/ ToolLoadRom
  \/ ToolGetScreen

SpecTools == Init /\ [][NextTools]_vars

\* ------------------------------------------------------------ properties
IsStep(e) == e.call = "runFrame"
IsFast(e) == e.call = "runFrame" /\ e.flag = TRUE
IsFull(e) == e.call = "runFrame" /\ e.flag = FALSE
IsDown(e) == e.call = "setPad1ButtonPressed"
IsUp(e) == e.call = "setPad1ButtonReleased"

StepIdx == {i \in DOMAIN log : IsStep(log[i])}
FastIdx == {i \in DOMAIN log : IsFast(log[i])}
FullIdx == {i \in DOMAIN log : IsFull(log[i])}
DownIdx == {i \in DOMAIN log : IsDown(log[i])}
UpIdx == {i \in DOMAIN log : IsUp(log[i])}

\* the operations that need a loaded session
SessionOps == {"advanceFrameAndGetScreen", "waitFrames", "pressButton", "getScreen"}

FlagsUnchanged == romLoaded = pre.romLoaded /\ romPath = pre.romPath

\* C1: a press_<button> tool call with hold N > 0 on a loaded session makes
\* exactly N fast steps and exactly one rendered step, N + 1 steps in all.
C1_PressStepCount ==
  (op.name = "press_tool" /\ pre.romLoaded /\ op.frames > 0) =>
    /\ Cardinality(FastIdx) = op.frames
    /\ Cardinality(FullIdx) = 1
    /\ Cardinality(StepIdx) = op.frames + 1

C1_Witness ==
  /\ op.name = "press_tool" /\ pre.romLoaded /\ result = NoError
  /\ op.frames = 25 /\ Cardinality(StepIdx) = 26 /\ ret.type = "image"

\* C2: in an authoritative pressButton the button-down is the first core
\* call, every fast step comes after it and before the button-up with the
\* button held, the button-up (same code) comes before the rendered step,
\* and the rendered step is the last call and runs with the button released.
C2_PressOrder ==
  (op.name = "pressButton" /\ pre.romLoaded) =>
    LET code == SNES_BUTTON_MAP(op.button)
    IN /\ Len(log) >= 1 /\ IsDown(log[1]) /\ log[1].code = {code}
       /\ DownIdx = {1}
       /\ \A i \in FastIdx :
            /\ code \in log[i].held
            /\ \A j \in UpIdx : i < j
       /\ \A i \in UpIdx :
            /\ log[i].code = {code}
            /\ \A j \in FullIdx : i < j
       /\ \A i \in FullIdx : i = Len(log) /\ code \notin log[i].held
       /\ result = NoError =>
            /\ Cardinality(UpIdx) = 1 /\ Cardinality(FullIdx) = 1
            /\ op.frames > 0 => Cardinality(FastIdx) = op.frames

C2_Witness ==
  /\ op.name = "pressButton" /\ pre.romLoaded /\ result = NoError
  /\ op.frames = 2 /\ Len(log) = 5
  /\ IsDown(log[1]) /\ IsFast(log[2]) /\ IsFast(log[3]) /\ IsUp(log[4]) /\ IsFull(log[5])

\* C3 (as claimed): while no load has succeeded, advanceOneFrame, waitFrames,
\* pressButton and currentScreen fail with NotLoaded, make no core call and
\* leave the loaded flag and the identifier unchanged.
C3_NotLoadedBeforeAnyLoad ==
  (op.name \in SessionOps /\ ~everLoaded) =>
    result = NotLoaded /\ log = <<>> /\ FlagsUnchanged

\* C4 (as claimed): a load that fails after the core's load primitive was
\* called leaves the session reporting itself unloaded.
C4_FailedLoadUnloads ==
  (op.name = "loadRom" /\ result # NoError
     /\ \E i \in DOMAIN log : log[i].call = "loadRom") =>
    romLoaded = FALSE

\* C5: loading a path that does not exist fails with NotFound, calls nothing
\* on the core and leaves the loaded flag, the identifier and the machine as
\* they were.
C5_MissingPath ==
  (op.name = "loadRom" /\ ~existsSync(op.path)) =>
    result = NotFound /\ log = <<>> /\ FlagsUnchanged /\ snes = pre.snes

C5_Witness ==
  /\ op.name = "loadRom" /\ op.path = "missing.sfc" /\ result = NotFound
  /\ pre.romLoaded /\ romLoaded /\ romPath = "lo.sfc"

\* C6 (as claimed): a successful load calls the core's loadRom with the
\* detected mapping, one hard reset, five rendered priming steps, and one
\* capture, and a session that was unloaded is still unmarked while the
\* priming steps run.
C6_MarkedAfterPriming ==
  (op.name = "loadRom" /\ result = NoError) =>
    /\ Len(log) = 8
    /\ log[1].call = "loadRom"
    /\ log[1].flag = detectHiRom(readFileSync(op.path)).isHirom
    /\ log[2].call = "reset" /\ log[2].flag = TRUE
    /\ \A i \in 3 .. 7 : IsFull(log[i]) /\ (~pre.romLoaded => ~log[i].loaded)
    /\ log[8].call = "setPixels" /\ log[8].loaded
    /\ romLoaded /\ romPath = op.path

\* C6 (amended): a successful load calls the core's loadRom with the detected
\* mapping and one hard reset, then marks the session loaded and records the
\* identifier, then runs five rendered priming steps, then one capture: the
\* flag is as before the call during loadRom and reset and is set during
\* every priming step.
C6_LoadSequence ==
  (op.name = "loadRom" /\ result = NoError) =>
    /\ Len(log) = 8
    /\ log[1].call = "loadRom" /\ log[1].loaded = pre.romLoaded
    /\ log[1].flag = (op.path = "hi.smc")
    /\ log[2].call = "reset" /\ log[2].flag = TRUE /\ log[2].loaded = pre.romLoaded
    /\ \A i \in 3 .. 7 : IsFull(log[i]) /\ log[i].loaded
    /\ log[8].call = "setPixels" /\ log[8].loaded
    /\ romLoaded /\ romPath = op.path
    /\ ret.type = "image" /\ ret.data = Pixels(snes)

C6_Witness ==
  /\ op.name = "loadRom" /\ result = NoError /\ op.path = "hi.smc"
  /\ ~pre.romLoaded /\ Len(log) = 8 /\ log[1].flag = TRUE
  /\ ~log[2].loaded /\ log[3].loaded /\ IsFull(log[7])

\* C7 (as claimed): an operation that returns an error has had no effect: no
\* step and no button event was issued, the machine and the flags are as
\* before.
C7_Atomic ==
  (op.name \in SessionOps /\ result # NoError) =>
    /\ StepIdx = {} /\ DownIdx = {} /\ UpIdx = {}
    /\ snes = pre.snes
    /\ FlagsUnchanged

\* C8: waitFrames(N), N > 0, on a loaded session issues only rendered steps,
\* never more than N, and exactly N when it returns; it issues no fast step,
\* no button event and no capture and returns nothing.
C8_WaitFrames ==
  (op.name = "waitFrames" /\ pre.romLoaded /\ op.frames > 0) =>
    /\ \A i \in DOMAIN log : IsFull(log[i])
    /\ Len(log) <= op.frames
    /\ ret = NoRet
    /\ result = NoError =>
         /\ Len(log) = op.frames
         /\ snes.tick = pre.snes.tick + op.frames

C8_Witness ==
  /\ op.name = "waitFrames" /\ pre.romLoaded /\ result = NoError
  /\ op.frames = 2 /\ Len(log) = 2 /\ IsFull(log[1]) /\ IsFull(log[2])

\* C9 (as claimed): on a loaded session a frame count of zero or less given
\* to waitFrames, pressButton or the local press is rejected: the call does
\* not return normally and nothing reaches the core.
C9_NonPositiveRejected ==
  (op.name \in {"waitFrames", "pressButton", "pressButtonLocal"}
     /\ pre.romLoaded /\ op.frames <= 0) =>
    result # NoError /\ log = <<>>

\* C10 (as claimed): a local press that returns issues N steps, none of them
\* rendered.
C10_NoTrailingStep ==
  (op.name = "pressButtonLocal" /\ pre.romLoaded /\ op.frames > 0
     /\ result = NoError) =>
    Cardinality(StepIdx) = op.frames /\ FullIdx = {}

\* C10 (amended): a local press on a loaded session makes the same core calls
\* as the authoritative one: button-down, N fast steps, button-up and one
\* rendered step, N + 1 steps in all.
C10_LocalPress ==
  (op.name = "pressButtonLocal" /\ pre.romLoaded /\ op.frames > 0
     /\ result = NoError) =>
    LET code == SNES_BUTTON_MAP(op.button)
    IN /\ Len(log) = op.frames + 3
       /\ IsDown(log[1]) /\ log[1].code = {code}
       /\ \A i \in 2 .. op.frames + 1 : IsFast(log[i])
       /\ IsUp(log[op.frames + 2]) /\ log[op.frames + 2].code = {code}
       /\ IsFull(log[op.frames + 3])
       /\ Cardinality(StepIdx) = op.frames + 1

C10_Witness ==
  /\ op.name = "pressButtonLocal" /\ pre.romLoaded /\ result = NoError
  /\ op.frames = 2 /\ Len(log) = 5 /\ IsFull(log[5])
  /\ snes.tick = pre.snes.tick + 3

\* the pure queries on the state between two handlers
isLoaded == Service_isRomLoaded(Session)
currentRomIdentifier == Service_getRomPath(Session)

\* C11: with the loaded flag false the local press returns normally, calls
\* nothing on the core and changes nothing, and the authoritative press fails
\* with NotLoaded, also without a core call or a change.
C11_LocalPressUnloaded ==
  /\ (op.name = "pressButtonLocal" /\ ~pre.romLoaded) =>
       result = NoError /\ log = <<>> /\ FlagsUnchanged /\ snes = pre.snes
  /\ (op.name = "pressButton" /\ ~pre.romLoaded) =>
       result = NotLoaded /\ log = <<>> /\ FlagsUnchanged /\ snes = pre.snes

C11_Witness ==
  /\ op.name = "pressButtonLocal" /\ ~pre.romLoaded /\ op.frames = 2
  /\ result = NoError /\ log = <<>> /\ ~romLoaded

\* C17: after a load that returns, from any earlier state, isLoaded() is true
\* and currentRomIdentifier() is the path just loaded, also when another ROM
\* was loaded before.
C17_LoadReplaces ==
  (op.name = "loadRom" /\ result = NoError) =>
    isLoaded /\ currentRomIdentifier = op.path

C17_Witness ==
  /\ op.name = "loadRom" /\ result = NoError
  /\ pre.romLoaded /\ pre.romPath = "lo.sfc"
  /\ op.path = "hi.smc" /\ isLoaded /\ currentRomIdentifier = "hi.smc"

\* C18: advanceFrameAndGetScreen on a loaded session issues exactly one step,
\* rendered, as its first core call, no fast step and no button event; the
\* capture follows the step and shows the frame that step rendered.
C18_AdvanceOneFrame ==
  (op.name = "advanceFrameAndGetScreen" /\ pre.romLoaded) =>
    /\ StepIdx = {1} /\ IsFull(log[1])
    /\ FastIdx = {} /\ DownIdx = {} /\ UpIdx = {}
    /\ \A i \in DOMAIN log : i > 1 => (i = 2 /\ log[i].call = "setPixels")
    /\ result = NoError =>
         /\ Len(log) = 2
         /\ snes.tick = pre.snes.tick + 1
         /\ snes.video = snes.tick
         /\ ret.type = "image" /\ ret.data = Pixels(snes)

C18_Witness ==
  /\ op.name = "advanceFrameAndGetScreen" /\ pre.romLoaded /\ result = NoError
  /\ Len(log) = 2 /\ IsFull(log[1]) /\ log[2].call = "setPixels"
  /\ ret.data.video = pre.snes.video + 1

\* C19: the loaded flag is set exactly when an identifier is recorded, and it
\* is never taken back: a session that was loaded when a handler began, or
\* that has seen a load return, is loaded with an identifier afterwards.
C19_LoadedMonotonic ==
  /\ isLoaded <=> (currentRomIdentifier # Undefined)
  /\ pre.romLoaded => (isLoaded /\ currentRomIdentifier # Undefined)
  /\ everLoaded => (isLoaded /\ currentRomIdentifier # Undefined)

C19_Witness ==
  /\ op.name = "loadRom" /\ op.path = "bad.sfc" /\ result = LoadFailed
  /\ \E i \in DOMAIN log : log[i].call = "loadRom"
  /\ pre.romLoaded /\ isLoaded /\ currentRomIdentifier = pre.romPath

\* C20 (as claimed): between two handlers no button is held, whatever
\* happened during the hold, and during a handler at most one button is held.
C20_NoButtonHeld ==
  /\ snes.pad = {}
  /\ \A i \in DOMAIN log : Cardinality(log[i].held) <= 1

\* C15: getScreen on a loaded session makes one core call, the pixel
\* export: no step and no button event; the machine, the loaded flag and the
\* identifier are as before; the image shows the machine as it was, and it
\* equals the image returned last when the core was not stepped in between.
C15_CaptureIdempotent ==
  (op.name = "getScreen" /\ pre.romLoaded) =>
    /\ Len(log) = 1 /\ log[1].call = "setPixels"
    /\ snes = pre.snes
    /\ FlagsUnchanged
    /\ result = NoError =>
         /\ ret.type = "image" /\ ret.data = Pixels(pre.snes)
         /\ lastShot.n = 2 => ret.data = lastShot.data

C15_Witness ==
  /\ op.name = "getScreen" /\ pre.romLoaded /\ result = NoError
  /\ lastShot.n = 2 /\ ret.data = lastShot.data
  /\ ret.data.video > 5 /\ snes.tick = pre.snes.tick

\* ------------------------------------------------------------ detectHiRom
WordAt(buf, off) == At(buf, off) + 256 * At(buf, off + 1)

\* a header region of buf validates: buf is long enough and the two words
\* that start at off sum to 0xFFFF modulo 0x10000
Validates(buf, minLen, off) ==
  /\ buf.length >= minLen
  /\ (WordAt(buf, off) + WordAt(buf, off + 2)) % 65536 = 65535

\* C12: detect answers HiROM exactly when the HiROM region of the returned
\* buffer validates and either the LoROM region does not validate or the high
\* nibble of the byte at 0xFFD5 is 3; otherwise it answers LoROM.
C12_DetectMode ==
  det.done =>
    LET data == det.out.data
        loV == Validates(data, 32736, 32732)
        hiV == Validates(data, 65504, 65500)
    IN det.out.isHirom <=> (hiV /\ (~loV \/ At(data, 65493) \div 16 = 3))

\* both regions validate and the tie-break selects HiROM
C12_Witness ==
  /\ det.done /\ det.out.isHirom
  /\ Validates(det.out.data, 32736, 32732)
  /\ Validates(det.out.data, 65504, 65500)
  /\ At(det.out.data, 65493) \div 16 = 3

\* the copier header's size for a raw file
PrefixOf(raw) == IF raw.length % 1024 = 512 THEN 512 ELSE 0

\* C13: when the raw length is 512 modulo 1024 the returned buffer is the raw
\* file without its first 512 bytes and the mode is decided from the lengths
\* and header offsets of that shorter buffer; for any other length the returned
\* buffer is the raw file.
C13_StripCopierHeader ==
  det.done =>
    LET data == det.out.data
        shift == PrefixOf(rom)
        loV == /\ rom.length - shift >= 32736
               /\ (WordAt(rom, 32732 + shift) + WordAt(rom, 32734 + shift)) % 65536 = 65535
        hiV == /\ rom.length - shift >= 65504
               /\ (WordAt(rom, 65500 + shift) + WordAt(rom, 65502 + shift)) % 65536 = 65535
    IN /\ data.length = rom.length - shift
       /\ \A i \in DOMAIN rom.bytes : i >= shift => At(data, i - shift) = rom.bytes[i]
       /\ \A j \in DOMAIN data.bytes : At(rom, j + shift) = data.bytes[j]
       /\ shift = 0 => data = rom
       /\ det.out.isHirom <=> (hiV /\ (~loV \/ At(rom, 65493 + shift) \div 16 = 3))

\* the 32768+512 byte image whose LoROM words, found only behind the copier
\* header, sum to 0xFFFF
C13_Witness ==
  /\ det.done /\ rom.length = 32768 + 512
  /\ (WordAt(rom, 32732 + 512) + WordAt(rom, 32734 + 512)) % 65536 = 65535
  /\ (WordAt(rom, 32732) + WordAt(rom, 32734)) % 65536 # 65535
  /\ det.out.data.length = 32768
  /\ ~det.out.isHirom

\* C14: detect returns a mode for every length; it reads no index outside the
\* buffer, reads nothing of a region whose minimum length is not met, such a
\* region never makes the answer HiROM, and a buffer shorter than 0x7FE0
\* gives LoROM.
C14_ShortInput ==
  det.done =>
    LET data == det.out.data
    IN /\ det.out.isHirom \in BOOLEAN
       /\ \A r \in det.out.reads : r < data.length
       /\ data.length < 65504 =>
            /\ det.out.reads \cap (65493 .. 65503) = {}
            /\ ~det.out.isHirom
       /\ data.length < 32736 =>
            /\ det.out.reads = {}
            /\ ~det.out.isHirom

\* the zero-byte file
C14_Witness ==
  /\ det.done /\ rom.length = 0
  /\ det.out.data.length = 0 /\ ~det.out.isHirom /\ det.out.reads = {}

\* ------------------------------------------------------------ concurrency
\* C16: with several requests in flight at most one handler is executing,
\* and the core calls of two requests never interleave: between two calls of
\* one request there is no call of another.
C16_NoInterleaving ==
  /\ Cardinality(DOMAIN running) <= 1
  /\ \A i \in DOMAIN trace : \A k \in DOMAIN trace :
       (i < k /\ trace[i].req = trace[k].req) =>
         \A j \in i .. k : trace[j].req = trace[i].req

\* a handler is between two of its core calls while another request waits
C16_Witness ==
  /\ queue # NoRequests
  /\ \E r \in DOMAIN running :
       /\ running[r].pos > 0
       /\ running[r].pos < Len(running[r].c.log)

====
